---- MODULE Spec2Model ----
(***************************************************************************)
(* Focus/rest session controller of the Study Assistant sketches.          *)
(*                                                                         *)
(* The model follows the "red warning" sketch (src/unnamed/part_000; the   *)
(* two sketches in src/unnamed/part_002 and src/StudyAssistant have the    *)
(* same loop()).  One step of the model is one complete call of loop():    *)
(* sensor acquisition, classification, the duration model, the phase       *)
(* handling and the outputs written before loop() returns.                 *)
(*                                                                         *)
(* Time is in milliseconds, as returned by millis(); unsigned long is      *)
(* 32 bits wide on the target, so all clock arithmetic is modulo 2^32.     *)
(* An unsigned long is kept as a pair <<high half, low half>> of 16-bit    *)
(* halves, which keeps every intermediate value inside TLC's integers.     *)
(* loop() calls millis() several times; the calls of one cycle return      *)
(* now + skew with a non-decreasing skew.  Spec explores cycles whose      *)
(* millis() calls all fall into the same millisecond; SpecSkew explores    *)
(* cycles in which the counter advances between the calls (Skews).         *)
(*                                                                         *)
(* The pause between two cycles is an input: Ticks holds a short pause     *)
(* (below the 2 s debounce and LCD periods) and a long one that stands     *)
(* for a stretch of 25 minutes without a change of the readings.           *)
(***************************************************************************)
EXTENDS Integers, Sequences, FiniteSets, TLC

\* ------------------------------------------------------------------ bounds
MaxCycles == 6        \* number of loop() calls explored by Spec
MaxSkewCycles == 4    \* number of loop() calls explored by SpecSkew
MaxRateCycles == 4    \* number of loop() calls explored by SpecRateLimited
MaxEarlyCycles == 3   \* number of loop() calls explored by SpecEarly
MaxDemoCycles == 5    \* number of loop() calls explored by SpecDemo
MaxProgressCycles == 3    \* SpecProgress: cycles before the user leaves for good
MaxFineCycles == 4        \* SpecProgress: cycles after that which may be short
MaxWrapCycles == 5    \* number of loop() calls explored by SpecWrap
ProgressHorizon == 1500000    \* SpecProgress: ms explored after the latest
                              \* timestamp once the user has left for good

\* elapsed time between the starts of two consecutive cycles (delay() plus
\* the time the cycle itself takes); an input of the model
Ticks == {1000, 1500000}
\* echo pulse widths returned by pulseIn (microseconds); 0 is the timeout
Durations == {0, 900, 3100, 15100}
\* ms by which millis() has advanced since the start of the cycle when it is
\* called (SpecSkew)
Skews == {0, 1}
\* elapsed time between two cycles of the rate-limited sketch
\* (SpecRateLimited): one loop period, and a stretch of 25 minutes
RateTicks == {500, 1500000}
\* echo pulse widths of SpecSkew: the timeout and a user close to the sensor
SkewDurations == {0, 900}
\* inputs of the duration model and of the classification (SpecDurations):
\* values on both sides of every threshold of the code
LuxSamples == {0, 50, 79, 80, 100, 149, 150, 151, 299, 300, 500}
NoiseSamples == {0, 100, 199, 200, 249, 250, 349, 350, 650, 651, 700, 1023}
DistanceSamples == {0, 3, 5, 6, 15, 19, 20, 39, 40, 50, 79, 80, 199, 200, 256}
ArgSamples == {0, 1, 15, 19, 20, 39, 40, 50, 999}
\* <<lux, noise>> readings: a dim, loud room and a normal, quiet one
Rooms == {<<50, 700>>, <<100, 100>>}

\* ------------------------------------------------------- program constants
W16 == 65536                     \* 2^16: an unsigned long is two such halves
PRESENT_DISTANCE == 80
TOO_CLOSE_DISTANCE == 20
MIN_LUX == 80
MAX_NOISE == 300
MIN_VALID == 5
MAX_VALID == 200
ABSENCE_DEBOUNCE == 2000
LCD_PERIOD == 2000
SetupDelay == 1500
MsPerMin == 60000

RED    == <<40, 0, 0>>
YELLOW_Orange == <<40, 20, 0>>     \* the orange the README speaks of
YELLOW == <<20, 20, 0>>
NOISY  == <<40, 40, 0>>
BLUE   == <<0, 0, 40>>
GREEN  == <<0, 40, 0>>
OFF    == <<0, 0, 0>>
NOCOLOR == <<-1, -1, -1>>

VARIABLES
  now,                    \* millis() at the start of the latest cycle
  cycles,                 \* number of cycles run so far
  distance, noiseVal, lux,            \* locals of loop(): latest snapshot
  distanceCM,             \* argument of the latest calculateRecommendedTime call
  recommendedFocusTime, dynamicRestTime,
  focusStartTime, totalFocusTime, restStartTime, absenceStartTime,
  isPresent, inRestMode, restFinished, waitingForUserToLeave,
  lastLcdUpdate, lcdPage,
  lastColor,              \* (lastR, lastG, lastB)
  stripColor,             \* colour the status strip shows
  lastColorChangeTime,    \* rate-limited sketch (part_001): time of the latest write
  envLight,               \* environment strip on/off
  lcdView,                \* what the LCD text shows
  segOpenAt,              \* history: now of the cycle that opened the segment
  closedSum,              \* history: sum of (close now - open now) of closed segments
  closedCount,            \* history: number of closed segments
  warnNearAt,             \* history: now of the latest cycle that entered the
                          \* warning state or observed userNear in it
  segGoal,                \* history: recommendedFocusTime when the open segment began
  restGoalAtStart,               \* history: dynamicRestTime when the running rest began
  prevPhase,              \* history: phase before the latest cycle
  prevTotal,              \* history: totalFocusTime before the latest cycle
  pc,                     \* "setup", "loop" or "halted" (the while (1) of setup)
  uptime,                 \* history: ms run since the initial state, not wrapped
  stampUptime,            \* history: uptime when the timestamp the phase is
                          \* timed from was written
  nearSince               \* history: now of the first cycle of the latest
                          \* unbroken run of cycles that observed userNear

vars == <<now, cycles, distance, noiseVal, lux, distanceCM, recommendedFocusTime,
          dynamicRestTime, focusStartTime, totalFocusTime, restStartTime,
          absenceStartTime, isPresent, inRestMode, restFinished,
          waitingForUserToLeave, lastLcdUpdate, lcdPage, lastColor, stripColor,
          lastColorChangeTime, envLight,
          lcdView, segOpenAt, closedSum, closedCount, warnNearAt,
          segGoal, restGoalAtStart, prevPhase, prevTotal, pc, uptime,
          stampUptime, nearSince>>

\* ------------------------------------------------------ unsigned arithmetic
\* the unsigned long holding n, for 0 <= n < 2^31
U32(n) == <<(n \div W16) % W16, n % W16>>
Add32(a, b) ==
  LET lo == a[2] + b[2]
  IN <<(a[1] + b[1] + (lo \div W16)) % W16, lo % W16>>
\* variant in which a difference below zero is 0 instead of wrapping
Sub32_Saturating(a, b) ==
  LET borrow == IF a[2] < b[2] THEN 1 ELSE 0
  IN IF a[1] < b[1] \/ (a[1] = b[1] /\ a[2] < b[2]) THEN <<0, 0>>
     ELSE <<a[1] - b[1] - borrow, (a[2] - b[2] + W16) % W16>>
Sub32(a, b) ==
  LET borrow == IF a[2] < b[2] THEN 1 ELSE 0
  IN <<(a[1] - b[1] - borrow + W16) % W16, (a[2] - b[2] + W16) % W16>>
Ge32(a, b) == a[1] > b[1] \/ (a[1] = b[1] /\ a[2] >= b[2])
Gt32(a, b) == a[1] > b[1] \/ (a[1] = b[1] /\ a[2] > b[2])

\* --------------------------------------------------------- sensor snapshot
\* duration * 0.034 / 2 truncated to long; exact for the widths in Durations
getDistanceCM(duration) ==
  IF duration = 0 THEN 0 ELSE (duration * 17) \div 1000

\* variant of line 173 that accepts the echo timeout and short readings
ValidDistance_NoLowerBound(d) == d < MAX_VALID
ValidDistance(d) == d > MIN_VALID /\ d < MAX_VALID
\* variant of line 174 without the validity test
UserNear_NoValidity(d) == d < PRESENT_DISTANCE
UserNear(d) == ValidDistance(d) /\ d < PRESENT_DISTANCE
\* variant of line 175 without the validity test
UserTooClose_NoValidity(d) == d < TOO_CLOSE_DISTANCE
UserTooClose(d) == ValidDistance(d) /\ d < TOO_CLOSE_DISTANCE
\* variant of line 177 whose sentinel is 0
DistanceArg_Zero(d) == IF ValidDistance(d) THEN d ELSE 0
\* variant of line 177 that passes the reading as it is
DistanceArg_Raw(d) == d
DistanceArg(d) == IF ValidDistance(d) THEN d ELSE 999

\* ---------------------------------------------------------- duration model
Clamp(x, lo, hi) == IF x < lo THEN lo ELSE IF x > hi THEN hi ELSE x

\* the light bands of the later sketch (part_002, lines 468-471)
LuxDelta_Final(lx) ==
  IF lx >= 300 THEN 5 ELSE IF lx >= 150 THEN 0 ELSE IF lx < 80 THEN -10 ELSE 0
LuxDelta(lx) ==
  IF lx >= 300 THEN 10 ELSE IF lx >= 150 THEN 5 ELSE IF lx < 80 THEN -10 ELSE 0
\* variant of lines 108-110 that rewards noise
NoiseDelta_Inverted(nz) ==
  IF nz < 200 THEN -10 ELSE IF nz < 350 THEN 0 ELSE IF nz > 650 THEN 10 ELSE 5
NoiseDelta(nz) ==
  IF nz < 200 THEN 10 ELSE IF nz < 350 THEN 5 ELSE IF nz > 650 THEN -10 ELSE 0
DistDelta(dc) ==
  IF dc >= 40 THEN 5 ELSE IF dc < 20 /\ dc > 0 THEN -5 ELSE 0

calculateRecommendedTime(lx, nz, dc) ==
  U32(Clamp(45 + LuxDelta(lx) + NoiseDelta(nz) + DistDelta(dc), 25, 60) * MsPerMin)

\* part_002, lines 464-488: calculateRecommendedTime of the final sketch
\* variant of part_002, lines 468-470 with a larger bonus for bright light
FinalLuxDelta_Generous(lx) ==
  IF lx >= 300 THEN 15 ELSE IF lx >= 150 THEN 0 ELSE IF lx < 80 THEN -10 ELSE 0
FinalLuxDelta(lx) ==
  IF lx >= 300 THEN 5 ELSE IF lx >= 150 THEN 0 ELSE IF lx < 80 THEN -10 ELSE 0
FinalNoiseDelta(nz) ==
  IF nz < 200 THEN 5 ELSE IF nz < 350 THEN 0 ELSE IF nz > 650 THEN -10 ELSE 0
calculateRecommendedTimeFinal(lx, nz, dc) ==
  U32(Clamp(45 + FinalLuxDelta(lx) + FinalNoiseDelta(nz) + DistDelta(dc), 20, 60)
      * MsPerMin)

\* variant of lines 125-138 whose bonus also applies at exactly 150 lux
calculateRestTime_Inclusive(lx, nz) ==
  LET delta == (IF lx < 80 THEN 5 ELSE 0) + (IF nz > 650 THEN 5 ELSE 0)
               - (IF lx >= 150 /\ nz < 250 THEN 5 ELSE 0)
  IN U32(Clamp(15 + delta, 5, 25) * MsPerMin)
calculateRestTime(lx, nz) ==
  LET delta == (IF lx < 80 THEN 5 ELSE 0) + (IF nz > 650 THEN 5 ELSE 0)
               - (IF lx > 150 /\ nz < 250 THEN 5 ELSE 0)
  IN U32(Clamp(15 + delta, 5, 25) * MsPerMin)

\* ------------------------------------------------------------------ outputs
\* variant of lines 60-68 that never writes the strip
safeSetStatusColor_Stuck(c, last) == last
safeSetStatusColor(c, last) == IF c = last THEN last ELSE c

\* variant of lines 60-68 without the early return
StatusCall_Rewrites(c, st) == <<c, c, TRUE>>
\* lines 60-68 with the strip: st is <<(lastR, lastG, lastB), colour shown>>;
\* the result adds whether statusStrip.show() was called
StatusCall(c, st) ==
  <<safeSetStatusColor(c, st[1]), IF c = st[1] THEN st[2] ELSE c, c # st[1]>>

\* variant of lines 89-95 that lights the strip whatever it is told
setEnvironmentLight_AlwaysOn(on) == TRUE
\* lines 89-95: the state of the environment strip after the call
setEnvironmentLight(on) == on

\* variant of lines 285-307 that tests the noise before the distance
FocusColor_NoiseFirst(d, nz) ==
  IF ~ValidDistance(d) THEN (IF nz > MAX_NOISE THEN NOISY ELSE OFF)
  ELSE IF nz > MAX_NOISE THEN NOISY
  ELSE IF UserTooClose(d) THEN BLUE
  ELSE GREEN
FocusColor(d, nz) ==
  IF ~ValidDistance(d) THEN (IF nz > MAX_NOISE THEN NOISY ELSE OFF)
  ELSE IF UserTooClose(d) THEN BLUE
  ELSE IF nz > MAX_NOISE THEN NOISY
  ELSE GREEN

\* variant of line 285 without the isPresent guard
FocusBlockColor_Unguarded(present, d, nz, last) ==
  safeSetStatusColor(FocusColor(d, nz), last)
\* lines 285-307: the status colour after the focus LED block
FocusBlockColor(present, d, nz, last) ==
  IF present THEN safeSetStatusColor(FocusColor(d, nz), last) ELSE last

\* variant of line 314 that flips at exactly 2000 ms too
LcdDue_Inclusive(t, last) == Ge32(Sub32(t, last), U32(LCD_PERIOD))
\* line 314: the page is due to flip
LcdDue(t, last) == Gt32(Sub32(t, last), U32(LCD_PERIOD))

\* variant of lines 320-340 that prints nothing
PageView_Blank(page) == "blank"
\* lines 320-340: what the LCD shows for a page
PageView(page) == IF page = 0 THEN "page0" ELSE "page1"

\* ------------------------------------------------------- phase conditions
\* variant of lines 193-195 that never restarts the absence clock
ResetAbsence_Never(userNear, t, absStart) == absStart
\* line 193-195: a near observation restarts the absence clock
ResetAbsence(userNear, t, absStart) == IF userNear THEN t ELSE absStart
\* variant of line 198 that never finds the absence long enough
AbsenceLongEnough_Never(userNear, t, absStart) == FALSE
\* line 198
AbsenceLongEnough(userNear, t, absStart) ==
  ~userNear /\ Ge32(Sub32(t, absStart), U32(ABSENCE_DEBOUNCE))
\* variant of line 230 that ends the rest although the user is at the desk
RestComplete_IgnoresPresence(userNear, restElapsed, restGoal) ==
  Ge32(restElapsed, restGoal)
\* variant of line 230 that compares with > instead of >=
RestComplete_Strict(userNear, restElapsed, restGoal) ==
  ~userNear /\ Gt32(restElapsed, restGoal)
\* line 230
RestComplete(userNear, restElapsed, restGoal) ==
  ~userNear /\ Ge32(restElapsed, restGoal)
\* variant of line 231 that leaves inRestMode set when the rest is over
RestModeAfter_Kept(resting, done) == resting
\* line 231
RestModeAfter(resting, done) == resting /\ ~done
\* line 243 / 249
\* variant of line 243 that restarts the segment whenever the user is near
SegmentStarts_Always(userNear, present) == userNear
SegmentStarts(userNear, present) == userNear /\ ~present
\* variant of line 249 that never closes the segment on absence
SegmentEnds_Never(userNear, present) == FALSE
SegmentEnds(userNear, present) == ~userNear /\ present
\* line 245: sitting down clears the rest-finished flag
ClearRestFinished(finished, starts) == finished /\ ~starts
\* variant of line 250 that adds the clock value instead of the elapsed time
CloseSegment_Absolute(total, t, fStart) == Add32(total, t)
\* line 250
CloseSegment(total, t, fStart) == Add32(total, Sub32(t, fStart))
\* variant of line 258 that compares with > instead of >=
FocusLimitReached_Strict(resting, present, currentFocus, goal) ==
  ~resting /\ present /\ Gt32(currentFocus, goal)
\* variant of line 258 that fires at half the recommendation
FocusLimitReached_Early(resting, present, currentFocus, goal) ==
  ~resting /\ present /\ Ge32(Add32(currentFocus, currentFocus), goal)
\* line 258
FocusLimitReached(resting, present, currentFocus, goal) ==
  ~resting /\ present /\ Ge32(currentFocus, goal)
\* variant of line 259 that assigns instead of adding
AccumulateOnWarn_Assign(total, currentFocus) == currentFocus
\* line 259
AccumulateOnWarn(total, currentFocus) == Add32(total, currentFocus)
\* variant of lines 177, 258 that keeps comparing against the earlier value
ActiveFocusGoal_Stale(stored, fresh) == stored
\* lines 177, 258: the value just recomputed is the one compared against
ActiveFocusGoal(stored, fresh) == fresh
\* lines 178, 230
ActiveRestGoal(stored, fresh) == fresh

\* variant of line 260 that leaves isPresent set on entering the warning
PresentAfterWarn_Kept(present, warn) == present
\* line 260: the warning closes the segment
PresentAfterWarn(present, warn) == present /\ ~warn

\* ------------------------------------------------------------------- phase
Phase ==
  IF waitingForUserToLeave THEN "WarnPendingLeave"
  ELSE IF inRestMode THEN "Resting"
  ELSE IF isPresent THEN "Focusing"
  ELSE IF restFinished THEN "RestFinished"
  ELSE "Idle"

\* non-decreasing skews of the n millis() calls of one cycle
\* variant in which a later millis() call may return less than an earlier one
SkewSeqs_Unordered(n) == [1..n -> Skews]
SkewSeqs(n) ==
  {s \in [1..n -> Skews] : \A i \in 1..(n - 1) : s[i] <= s[i+1]}

Init ==
  /\ now = U32(SetupDelay)
  /\ cycles = 0
  /\ distance = 0 /\ noiseVal = 0 /\ lux = 0
  /\ distanceCM = 0
  /\ recommendedFocusTime = U32(45 * 60 * 1000)
  /\ dynamicRestTime = U32(15 * 60 * 1000)
  /\ focusStartTime = U32(0) /\ totalFocusTime = U32(0)
  /\ restStartTime = U32(0) /\ absenceStartTime = U32(0)
  /\ isPresent = FALSE /\ inRestMode = FALSE
  /\ restFinished = FALSE /\ waitingForUserToLeave = FALSE
  /\ lastLcdUpdate = U32(0) /\ lcdPage = 0
  /\ lastColor = NOCOLOR
  /\ stripColor = OFF
  /\ lastColorChangeTime = U32(0)
  /\ envLight = FALSE
  /\ lcdView = "blank"
  /\ segOpenAt = U32(0) /\ closedSum = U32(0) /\ closedCount = 0
  /\ warnNearAt = U32(0)
  /\ segGoal = U32(0) /\ restGoalAtStart = U32(0)
  /\ prevPhase = "Idle"
  /\ prevTotal = U32(0)
  /\ pc = "loop"
  /\ uptime = 0 /\ stampUptime = 0
  /\ nearSince = U32(0)

\* history of the focus segments, read off isPresent before and after a cycle
SegmentHistory ==
  /\ segOpenAt' = IF ~isPresent /\ isPresent' THEN now' ELSE segOpenAt
  /\ closedSum' = IF isPresent /\ ~isPresent'
                     THEN Add32(closedSum, Sub32(now', segOpenAt)) ELSE closedSum
  /\ closedCount' = IF isPresent /\ ~isPresent' THEN closedCount + 1 ELSE closedCount
  /\ segGoal' = IF ~isPresent' THEN U32(0)
                 ELSE IF ~isPresent THEN recommendedFocusTime' ELSE segGoal

\* history of the timestamp the phase after the cycle is timed from
StampHistory ==
  stampUptime' =
    IF \/ (Phase' = "Focusing" /\ focusStartTime' # focusStartTime)
       \/ (Phase' = "WarnPendingLeave" /\ absenceStartTime' # absenceStartTime)
       \/ (Phase' = "Resting" /\ restStartTime' # restStartTime)
      THEN uptime' ELSE stampUptime

\* lines 169-178: acquisition, classification and the duration model
Snapshot(d, dur, nz, lx) ==
  /\ cycles' = cycles + 1
  /\ now' = Add32(now, U32(d))
  /\ distance' = getDistanceCM(dur)
  /\ noiseVal' = nz
  /\ lux' = lx
  /\ distanceCM' = DistanceArg(getDistanceCM(dur))
  /\ recommendedFocusTime' =
       calculateRecommendedTime(lx, nz, DistanceArg(getDistanceCM(dur)))
  /\ dynamicRestTime' = calculateRestTime(lx, nz)
  /\ prevPhase' = Phase
  /\ prevTotal' = totalFocusTime
  /\ pc = "loop"
  /\ pc' = pc
  /\ uptime' = uptime + d
  /\ nearSince' = IF UserNear(getDistanceCM(dur)) /\ ~UserNear(distance)
                    THEN Add32(now, U32(d)) ELSE nearSince

\* lines 183-206: loop() in the red warning state
WarningCycle(d, dur, nz, lx, s) ==
  LET t1 == Add32(Add32(now, U32(d)), U32(s[1]))
      t2 == Add32(Add32(now, U32(d)), U32(s[2]))
      near == UserNear(getDistanceCM(dur))
      abs1 == ResetAbsence(near, t1, absenceStartTime)
      toRest == AbsenceLongEnough(near, t1, abs1)
  IN /\ waitingForUserToLeave
     /\ Snapshot(d, dur, nz, lx)
     /\ lastColor' = safeSetStatusColor(RED, lastColor)
     /\ stripColor' = StatusCall(RED, <<lastColor, stripColor>>)[2]
     /\ lcdView' = "break"
     /\ absenceStartTime' = abs1
     /\ waitingForUserToLeave' = ~toRest
     /\ inRestMode' = (inRestMode \/ toRest)
     /\ restStartTime' = IF toRest THEN t2 ELSE restStartTime
     /\ warnNearAt' = IF near THEN Add32(now, U32(d)) ELSE warnNearAt
     /\ restGoalAtStart' = IF toRest THEN calculateRestTime(lx, nz) ELSE restGoalAtStart
     /\ UNCHANGED <<focusStartTime, totalFocusTime, isPresent, restFinished,
                    lastLcdUpdate, lcdPage, envLight, segOpenAt, closedSum,
                    closedCount, segGoal, lastColorChangeTime>>
     /\ StampHistory

\* lines 211-238: loop() in rest mode
RestCycle(d, dur, nz, lx, s) ==
  LET t1 == Add32(Add32(now, U32(d)), U32(s[1]))
      near == UserNear(getDistanceCM(dur))
      restElapsed == Sub32(t1, restStartTime)
      done == RestComplete(near, restElapsed,
                ActiveRestGoal(dynamicRestTime, calculateRestTime(lx, nz)))
  IN /\ ~waitingForUserToLeave
     /\ inRestMode
     /\ Snapshot(d, dur, nz, lx)
     /\ envLight' = setEnvironmentLight(FALSE)
     /\ lcdView' = "rest"
     /\ inRestMode' = RestModeAfter(inRestMode, done)
     /\ restFinished' = (restFinished \/ done)
     /\ lastColor' = IF done
                       THEN safeSetStatusColor(YELLOW, safeSetStatusColor(RED, lastColor))
                       ELSE safeSetStatusColor(RED, lastColor)
     /\ stripColor' = LET st1 == StatusCall(RED, <<lastColor, stripColor>>)
                      IN IF done THEN StatusCall(YELLOW, st1)[2] ELSE st1[2]
     /\ UNCHANGED <<focusStartTime, totalFocusTime, restStartTime,
                    absenceStartTime, isPresent, waitingForUserToLeave,
                    lastLcdUpdate, lcdPage, segOpenAt, closedSum, closedCount,
                    warnNearAt, segGoal, lastColorChangeTime>>
     /\ restGoalAtStart' = IF done THEN U32(0) ELSE restGoalAtStart
     /\ StampHistory

\* lines 243-340: loop() outside the warning and rest states
NormalCycle(d, dur, nz, lx, s) ==
  LET tn == Add32(now, U32(d))
      t1 == Add32(tn, U32(s[1]))      \* line 246 or 250
      t2 == Add32(tn, U32(s[2]))      \* line 254
      t3 == Add32(tn, U32(s[3]))      \* line 263 or 278
      t4 == Add32(tn, U32(s[4]))      \* line 314
      t5 == Add32(tn, U32(s[5]))      \* line 315
      dist == getDistanceCM(dur)
      near == UserNear(dist)
      goal == ActiveFocusGoal(recommendedFocusTime,
                calculateRecommendedTime(lx, nz, DistanceArg(dist)))
      starts == SegmentStarts(near, isPresent)
      present1 == isPresent \/ starts
      finished1 == ClearRestFinished(restFinished, starts)
      fStart1 == IF starts THEN t1 ELSE focusStartTime
      ends == SegmentEnds(near, present1)
      total1 == IF ends THEN CloseSegment(totalFocusTime, t1, fStart1)
                        ELSE totalFocusTime
      present2 == present1 /\ ~ends
      currentFocus == IF present2 THEN Sub32(t2, fStart1) ELSE U32(0)
      warn == FocusLimitReached(inRestMode, present2, currentFocus, goal)
      color1 == IF finished1 THEN safeSetStatusColor(YELLOW, lastColor) ELSE lastColor
      back == finished1 /\ near
      color2 == FocusBlockColor(present2, dist, nz, color1)
      st0 == <<lastColor, stripColor>>
      st1 == IF finished1 THEN StatusCall(YELLOW, st0) ELSE st0
      st2 == IF present2 THEN StatusCall(FocusColor(dist, nz), st1) ELSE st1
      flip == LcdDue(t4, lastLcdUpdate)
      page == IF flip THEN (lcdPage + 1) % 2 ELSE lcdPage
  IN /\ ~waitingForUserToLeave
     /\ ~inRestMode
     /\ Snapshot(d, dur, nz, lx)
     /\ inRestMode' = inRestMode
     /\ restStartTime' = restStartTime
     /\ warnNearAt' = IF warn THEN tn ELSE warnNearAt
     /\ restGoalAtStart' = restGoalAtStart
     /\ lastColorChangeTime' = lastColorChangeTime
     /\ IF warn
          THEN /\ totalFocusTime' = AccumulateOnWarn(total1, currentFocus)
               /\ isPresent' = PresentAfterWarn(present2, warn)
               /\ waitingForUserToLeave' = TRUE
               /\ absenceStartTime' = t3
               /\ lastColor' = safeSetStatusColor(RED, lastColor)
               /\ stripColor' = StatusCall(RED, st0)[2]
               /\ restFinished' = finished1
               /\ focusStartTime' = fStart1
               /\ UNCHANGED <<envLight, lastLcdUpdate, lcdPage, lcdView>>
          ELSE /\ totalFocusTime' = total1
               /\ isPresent' = present2
               /\ waitingForUserToLeave' = FALSE
               /\ absenceStartTime' = absenceStartTime
               /\ restFinished' = (finished1 /\ ~back)
               /\ focusStartTime' = IF back THEN t3 ELSE fStart1
               /\ lastColor' = color2
               /\ stripColor' = st2[2]
               /\ envLight' = setEnvironmentLight(lx < MIN_LUX)
               /\ lastLcdUpdate' = IF flip THEN t5 ELSE lastLcdUpdate
               /\ lcdPage' = page
               /\ lcdView' = PageView(page)
     /\ SegmentHistory
     /\ StampHistory

\* all millis() calls of the cycle return the same value
NoSkew == [i \in 1..5 |-> 0]

Next ==
  /\ cycles < MaxCycles
  /\ \E d \in Ticks, dur \in Durations, rm \in Rooms :
       \/ WarningCycle(d, dur, rm[2], rm[1], NoSkew)
       \/ RestCycle(d, dur, rm[2], rm[1], NoSkew)
       \/ NormalCycle(d, dur, rm[2], rm[1], NoSkew)

Spec == Init /\ [][Next]_vars

NextSkew ==
  /\ cycles < MaxSkewCycles
  /\ \E d \in Ticks, dur \in SkewDurations, rm \in Rooms, s \in SkewSeqs(5) :
       \/ WarningCycle(d, dur, rm[2], rm[1], s)
       \/ RestCycle(d, dur, rm[2], rm[1], s)
       \/ NormalCycle(d, dur, rm[2], rm[1], s)

SpecSkew == Init /\ [][NextSkew]_vars

\* The duration model and the classification on their own: the readings are
\* drawn by the initial state and one step evaluates them.
InitDurations ==
  /\ now = U32(SetupDelay)
  /\ cycles = 0
  /\ distance \in DistanceSamples
  /\ noiseVal \in NoiseSamples
  /\ lux \in LuxSamples
  /\ distanceCM = 0
  /\ recommendedFocusTime = U32(45 * 60 * 1000)
  /\ dynamicRestTime = U32(15 * 60 * 1000)
  /\ focusStartTime = U32(0) /\ totalFocusTime = U32(0)
  /\ restStartTime = U32(0) /\ absenceStartTime = U32(0)
  /\ isPresent = FALSE /\ inRestMode = FALSE
  /\ restFinished = FALSE /\ waitingForUserToLeave = FALSE
  /\ lastLcdUpdate = U32(0) /\ lcdPage = 0
  /\ lastColor = NOCOLOR
  /\ stripColor = OFF
  /\ lastColorChangeTime = U32(0)
  /\ envLight = FALSE
  /\ lcdView = "blank"
  /\ segOpenAt = U32(0) /\ closedSum = U32(0) /\ closedCount = 0
  /\ warnNearAt = U32(0)
  /\ segGoal = U32(0) /\ restGoalAtStart = U32(0)
  /\ prevPhase = "Idle"
  /\ prevTotal = U32(0)
  /\ pc = "loop"
  /\ uptime = 0 /\ stampUptime = 0
  /\ nearSince = U32(0)

\* the two calls with the argument dc for distanceCM
Evaluate(dc) ==
  /\ cycles = 0
  /\ cycles' = 1
  /\ distanceCM' = dc
  /\ recommendedFocusTime' = calculateRecommendedTime(lux, noiseVal, dc)
  /\ dynamicRestTime' = calculateRestTime(lux, noiseVal)
  /\ UNCHANGED <<now, distance, noiseVal, lux, focusStartTime, totalFocusTime,
                 restStartTime, absenceStartTime, isPresent, inRestMode,
                 restFinished, waitingForUserToLeave, lastLcdUpdate, lcdPage,
                 lastColor, stripColor, lastColorChangeTime, envLight, lcdView,
                 segOpenAt, closedSum,
                 closedCount, warnNearAt, segGoal, restGoalAtStart, prevPhase,
                 prevTotal, pc, uptime, stampUptime, nearSince>>

\* lines 177-178: the calls as loop() makes them
EvaluateInLoop == Evaluate(DistanceArg(distance))

\* the functions called with any distance argument
EvaluateDirect == \E dc \in ArgSamples : Evaluate(dc)

NextDurations == EvaluateInLoop \/ EvaluateDirect

SpecDurations == InitDurations /\ [][NextDurations]_vars

\* ------------------------------------------- the rate-limited sketch
\* part_001, lines 115-129: safeSetStatusColor with the 1 s rate limit;
\* st is <<(lastR, lastG, lastB), colour shown, lastColorChangeTime>>
RateLimitedStatusCall(c, t, st) ==
  IF c = st[1] THEN st
  ELSE IF ~Ge32(Sub32(t, st[3]), U32(1000)) THEN st
  ELSE <<c, c, t>>

\* part_001, lines 330-341: the focus colours (no invalid-distance branch)
RateLimitedFocusColor(d, nz) ==
  IF UserTooClose(d) THEN BLUE ELSE IF nz > MAX_NOISE THEN NOISY ELSE GREEN

\* part_001, lines 198-223: the state after setup(), whose delay is 2000 ms
InitRateLimited ==
  /\ now = U32(2000)
  /\ cycles = 0
  /\ distance = 0 /\ noiseVal = 0 /\ lux = 0
  /\ distanceCM = 0
  /\ recommendedFocusTime = U32(45 * 60 * 1000)
  /\ dynamicRestTime = U32(15 * 60 * 1000)
  /\ focusStartTime = U32(0) /\ totalFocusTime = U32(0)
  /\ restStartTime = U32(0) /\ absenceStartTime = U32(0)
  /\ isPresent = FALSE /\ inRestMode = FALSE
  /\ restFinished = FALSE /\ waitingForUserToLeave = FALSE
  /\ lastLcdUpdate = U32(0) /\ lcdPage = 0
  /\ lastColor = NOCOLOR
  /\ stripColor = OFF
  /\ lastColorChangeTime = U32(0)
  /\ envLight = FALSE
  /\ lcdView = "blank"
  /\ segOpenAt = U32(0) /\ closedSum = U32(0) /\ closedCount = 0
  /\ warnNearAt = U32(0)
  /\ segGoal = U32(0) /\ restGoalAtStart = U32(0)
  /\ prevPhase = "Idle"
  /\ prevTotal = U32(0)
  /\ pc = "loop"
  /\ uptime = 0 /\ stampUptime = 0
  /\ nearSince = U32(0)

\* part_001, lines 226-414: one call of loop() of the sketch without the
\* warning state (breakWarning, which is written and never read, is left out)
RateLimitedCycle(d, dur, nz, lx) ==
  LET t == Add32(now, U32(d))
      dist == getDistanceCM(dur)
      near == UserNear(dist)
      goal == calculateRecommendedTime(lx, nz, DistanceArg(dist))
      restGoal == calculateRestTime(lx, nz)
      \* lines 241-252
      tracked == near /\ ~inRestMode
      starts == tracked /\ ~isPresent
      ends == ~tracked /\ isPresent
      present1 == tracked
      finished1 == restFinished /\ ~starts
      fStart1 == IF starts THEN t ELSE focusStartTime
      total1 == IF ends THEN Add32(totalFocusTime, Sub32(t, focusStartTime))
                        ELSE totalFocusTime
      currentFocus == IF present1 THEN Sub32(t, fStart1) ELSE U32(0)
      \* lines 258-267
      enter == ~inRestMode /\ present1 /\ Ge32(currentFocus, goal)
      resting1 == inRestMode \/ enter
      rStart1 == IF enter THEN t ELSE restStartTime
      total2 == IF enter THEN Add32(total1, currentFocus) ELSE total1
      present2 == present1 /\ ~enter
      st0 == <<lastColor, stripColor, lastColorChangeTime>>
      st1 == IF enter THEN RateLimitedStatusCall(RED, t, st0) ELSE st0
      \* lines 270-308
      st2 == RateLimitedStatusCall(RED, t, st1)
      done == ~near /\ Ge32(Sub32(t, rStart1), restGoal)
      st3 == IF done THEN RateLimitedStatusCall(YELLOW, t, st2) ELSE st2
      \* lines 311-342
      stA == IF finished1 THEN RateLimitedStatusCall(YELLOW, t, st0) ELSE st0
      back == finished1 /\ near
      stB == IF present2
               THEN RateLimitedStatusCall(RateLimitedFocusColor(dist, nz), t, stA)
               ELSE stA
      \* lines 349-353
      flip == LcdDue(t, lastLcdUpdate)
      page == IF flip THEN (lcdPage + 1) % 2 ELSE lcdPage
      stEnd == IF resting1 THEN st3 ELSE stB
  IN /\ Snapshot(d, dur, nz, lx)
     /\ totalFocusTime' = total2
     /\ isPresent' = present2
     /\ restStartTime' = rStart1
     /\ lastColor' = stEnd[1]
     /\ stripColor' = stEnd[2]
     /\ lastColorChangeTime' = stEnd[3]
     /\ IF resting1
          THEN /\ envLight' = setEnvironmentLight(FALSE)
               /\ lcdView' = "rest"
               /\ inRestMode' = ~done
               /\ restFinished' = (finished1 \/ done)
               /\ focusStartTime' = fStart1
               /\ UNCHANGED <<lastLcdUpdate, lcdPage>>
          ELSE /\ envLight' = setEnvironmentLight(lx < MIN_LUX)
               /\ lcdView' = PageView(page)
               /\ inRestMode' = FALSE
               /\ restFinished' = (finished1 /\ ~back)
               /\ focusStartTime' = IF back THEN t ELSE fStart1
               /\ lastLcdUpdate' = IF flip THEN t ELSE lastLcdUpdate
               /\ lcdPage' = page
     /\ SegmentHistory
     /\ UNCHANGED <<absenceStartTime, waitingForUserToLeave, warnNearAt,
                    restGoalAtStart>>
     /\ StampHistory

NextRateLimited ==
  /\ cycles < MaxRateCycles
  /\ \E d \in RateTicks, dur \in Durations, rm \in Rooms :
       RateLimitedCycle(d, dur, rm[2], rm[1])

SpecRateLimited == InitRateLimited /\ [][NextRateLimited]_vars

\* ------------------------------------------------ the user leaves for good
\* pauses between cycles once the user has left: below the debounce, and 10 min
ProgressTicks == {1500, 600000}
\* the pauses explored after MaxFineCycles further cycles
LongTicks == {600000}
\* echo pulse widths of an empty desk: the timeout and an echo from beyond
\* the valid range
AbsentDurations == {0, 15100}

\* inputs of a cycle of SpecProgress: any reading during the first
\* MaxProgressCycles cycles, an empty desk from then on
ProgressInput(d, dur) ==
  IF cycles < MaxProgressCycles
    THEN d \in Ticks /\ dur \in SkewDurations
    ELSE /\ dur \in AbsentDurations
         /\ d \in (IF cycles < MaxProgressCycles + MaxFineCycles
                     THEN ProgressTicks ELSE LongTicks)
         /\ Phase \in {"WarnPendingLeave", "Resting", "RestFinished"}
         /\ uptime - stampUptime < ProgressHorizon

NextProgress ==
  \E d \in Ticks \cup ProgressTicks, dur \in SkewDurations \cup AbsentDurations,
     rm \in Rooms :
    /\ ProgressInput(d, dur)
    /\ \/ WarningCycle(d, dur, rm[2], rm[1], NoSkew)
       \/ RestCycle(d, dur, rm[2], rm[1], NoSkew)
       \/ NormalCycle(d, dur, rm[2], rm[1], NoSkew)

\* the cycles run after the user has left
LeftForGood == cycles >= MaxProgressCycles /\ NextProgress

\* loop() is called again for as long as the device runs
SpecProgress == Init /\ [][NextProgress]_vars /\ WF_vars(LeftForGood)

\* ------------------------------------------- the clock about to wrap
\* millis() shortly before it wraps at 2^32 (after 49.7 days): 0.5 s, 25 min
\* and 50 min before
\* (2^32 - 500, 2^32 - 1500500 and 2^32 - 3000500 as 16-bit halves)
WrapStarts == {<<W16 - 1, W16 - 500>>, <<W16 - 23, W16 - 58708>>,
               <<W16 - 46, W16 - 51380>>}

\* the state at the start of a cycle after 49.7 days with nobody at the desk:
\* the latest cycle read an echo timeout in the normal room and showed page 0
InitWrap ==
  /\ now \in WrapStarts
  /\ cycles = 0
  /\ distance = 0 /\ noiseVal = 100 /\ lux = 100
  /\ distanceCM = DistanceArg(0)
  /\ recommendedFocusTime = calculateRecommendedTime(100, 100, DistanceArg(0))
  /\ dynamicRestTime = calculateRestTime(100, 100)
  /\ focusStartTime = U32(0) /\ totalFocusTime = U32(0)
  /\ restStartTime = U32(0) /\ absenceStartTime = U32(0)
  /\ isPresent = FALSE /\ inRestMode = FALSE
  /\ restFinished = FALSE /\ waitingForUserToLeave = FALSE
  /\ lastLcdUpdate = now /\ lcdPage = 0
  /\ lastColor = NOCOLOR
  /\ stripColor = OFF
  /\ lastColorChangeTime = U32(0)
  /\ envLight = setEnvironmentLight(100 < MIN_LUX)
  /\ lcdView = PageView(0)
  /\ segOpenAt = U32(0) /\ closedSum = U32(0) /\ closedCount = 0
  /\ warnNearAt = U32(0)
  /\ segGoal = U32(0) /\ restGoalAtStart = U32(0)
  /\ prevPhase = "Idle"
  /\ prevTotal = U32(0)
  /\ pc = "loop"
  /\ uptime = 0 /\ stampUptime = 0
  /\ nearSince = U32(0)

NextWrap ==
  /\ cycles < MaxWrapCycles
  /\ \E d \in Ticks, dur \in SkewDurations, rm \in Rooms :
       \/ WarningCycle(d, dur, rm[2], rm[1], NoSkew)
       \/ RestCycle(d, dur, rm[2], rm[1], NoSkew)
       \/ NormalCycle(d, dur, rm[2], rm[1], NoSkew)

SpecWrap == InitWrap /\ [][NextWrap]_vars

\* ------------------------------------------------------------------ setup
\* variant of lines 157-160 that goes on to loop() without the sensor
SetupOutcome_Continue(vemlOk) == "loop"
\* lines 157-160: while (1) when veml.begin() fails
SetupOutcome(vemlOk) == IF vemlOk THEN "loop" ELSE "halted"

\* lines 35-55: the globals as declared, before setup() has run
InitBoot ==
  /\ now = U32(0)
  /\ cycles = 0
  /\ distance = 0 /\ noiseVal = 0 /\ lux = 0
  /\ distanceCM = 0
  /\ recommendedFocusTime = U32(45 * 60 * 1000)
  /\ dynamicRestTime = U32(15 * 60 * 1000)
  /\ focusStartTime = U32(0) /\ totalFocusTime = U32(0)
  /\ restStartTime = U32(0) /\ absenceStartTime = U32(0)
  /\ isPresent = FALSE /\ inRestMode = FALSE
  /\ restFinished = FALSE /\ waitingForUserToLeave = FALSE
  /\ lastLcdUpdate = U32(0) /\ lcdPage = 0
  /\ lastColor = NOCOLOR
  /\ stripColor = OFF
  /\ lastColorChangeTime = U32(0)
  /\ envLight = FALSE
  /\ lcdView = "blank"
  /\ segOpenAt = U32(0) /\ closedSum = U32(0) /\ closedCount = 0
  /\ warnNearAt = U32(0)
  /\ segGoal = U32(0) /\ restGoalAtStart = U32(0)
  /\ prevPhase = "Idle"
  /\ prevTotal = U32(0)
  /\ pc = "setup"
  /\ uptime = 0 /\ stampUptime = 0
  /\ nearSince = U32(0)

\* lines 143-162: setup(); vemlOk is what veml.begin() returns
Setup(vemlOk) ==
  /\ pc = "setup"
  /\ pc' = SetupOutcome(vemlOk)
  /\ now' = Add32(now, U32(SetupDelay))
  /\ lcdView' = IF vemlOk THEN "blank" ELSE "VEML ERROR"
  /\ UNCHANGED <<cycles, distance, noiseVal, lux, distanceCM,
                 recommendedFocusTime, dynamicRestTime, focusStartTime,
                 totalFocusTime, restStartTime, absenceStartTime, isPresent,
                 inRestMode, restFinished, waitingForUserToLeave,
                 lastLcdUpdate, lcdPage, lastColor, stripColor,
                 lastColorChangeTime, envLight, segOpenAt, closedSum,
                 closedCount, warnNearAt, segGoal, restGoalAtStart, prevPhase,
                 prevTotal, uptime, stampUptime, nearSince>>

NextBoot ==
  \/ \E vemlOk \in BOOLEAN : Setup(vemlOk)
  \/ Next

SpecBoot == InitBoot /\ [][NextBoot]_vars

\* --------------------------------------------- shared by the other sketches
\* the globals of a sketch as declared, with the clock at t0 after setup()
InitAt(t0) ==
  /\ now = t0
  /\ cycles = 0
  /\ distance = 0 /\ noiseVal = 0 /\ lux = 0
  /\ distanceCM = 0
  /\ recommendedFocusTime = U32(45 * 60 * 1000)
  /\ dynamicRestTime = U32(15 * 60 * 1000)
  /\ focusStartTime = U32(0) /\ totalFocusTime = U32(0)
  /\ restStartTime = U32(0) /\ absenceStartTime = U32(0)
  /\ isPresent = FALSE /\ inRestMode = FALSE
  /\ restFinished = FALSE /\ waitingForUserToLeave = FALSE
  /\ lastLcdUpdate = U32(0) /\ lcdPage = 0
  /\ lastColor = NOCOLOR
  /\ stripColor = OFF
  /\ lastColorChangeTime = U32(0)
  /\ envLight = FALSE
  /\ lcdView = "blank"
  /\ segOpenAt = U32(0) /\ closedSum = U32(0) /\ closedCount = 0
  /\ warnNearAt = U32(0)
  /\ segGoal = U32(0) /\ restGoalAtStart = U32(0)
  /\ prevPhase = "Idle"
  /\ prevTotal = U32(0)
  /\ pc = "loop"
  /\ uptime = 0 /\ stampUptime = 0
  /\ nearSince = U32(0)

\* the three sensor reads at the top of loop(), d ms after the previous cycle
Readings(d, dur, nz, lx) ==
  /\ pc = "loop"
  /\ pc' = pc
  /\ cycles' = cycles + 1
  /\ now' = Add32(now, U32(d))
  /\ uptime' = uptime + d
  /\ distance' = getDistanceCM(dur)
  /\ noiseVal' = nz
  /\ lux' = lx
  /\ prevPhase' = Phase
  /\ prevTotal' = totalFocusTime

\* ------------------------------------------------- the early rgb_lcd sketch
\* CASA0016_Sensors_Testing.ino, lines 393-398
EARLY_PRESENT_DISTANCE == 60
EARLY_TOO_CLOSE_DISTANCE == 25
EARLY_MAX_NOISE == 600
FOCUS_LIMIT == U32(45 * 60 * 1000)
EARLY_RED == <<50, 0, 0>>
EARLY_GREEN == <<0, 50, 0>>
EARLY_YELLOW == <<50, 50, 0>>
\* pause between two cycles of the early sketch: delay(500), and 45 minutes
EarlyTicks == {500, 2700500}

\* line 482: presence is the bare comparison, without a validity test
EarlyPresent(d) == d < EARLY_PRESENT_DISTANCE
\* line 500
EarlyTooClose(d) == d < EARLY_TOO_CLOSE_DISTANCE
\* lines 500-506
EarlyProblem(d, nz, lx) ==
  EarlyTooClose(d) \/ lx < MIN_LUX \/ nz > EARLY_MAX_NOISE

\* lines 445-473: the state after setup(), whose delay is 2000 ms
InitEarly == InitAt(U32(2000))

\* lines 476-601: one call of loop() of the early sketch
EarlyCycle(d, dur, nz, lx) ==
  LET t == Add32(now, U32(d))
      dist == getDistanceCM(dur)
      near == EarlyPresent(dist)
      starts == near /\ ~isPresent
      ends == ~near /\ isPresent
      fStart1 == IF starts THEN t ELSE focusStartTime
      currentFocusTime == IF near THEN Sub32(t, fStart1) ELSE U32(0)
      problem == EarlyProblem(dist, nz, lx)
      breakWarning == Gt32(currentFocusTime, FOCUS_LIMIT) /\ problem
      flip == LcdDue(t, lastLcdUpdate)
      page == IF flip THEN (lcdPage + 1) % 2 ELSE lcdPage
  IN /\ Readings(d, dur, nz, lx)
     /\ isPresent' = near
     /\ focusStartTime' = fStart1
     /\ totalFocusTime' = IF ends THEN Add32(totalFocusTime, Sub32(t, focusStartTime))
                                  ELSE totalFocusTime
     /\ stripColor' = IF problem THEN EARLY_RED
                       ELSE IF near THEN EARLY_GREEN ELSE EARLY_YELLOW
     /\ envLight' = setEnvironmentLight(lx < MIN_LUX)
     /\ lastLcdUpdate' = IF flip THEN t ELSE lastLcdUpdate
     /\ lcdPage' = page
     /\ lcdView' = IF breakWarning THEN "break" ELSE PageView(page)
     /\ UNCHANGED <<distanceCM, recommendedFocusTime, dynamicRestTime,
                    restStartTime, absenceStartTime, inRestMode, restFinished,
                    waitingForUserToLeave, lastColor, lastColorChangeTime,
                    warnNearAt, restGoalAtStart, nearSince>>
     /\ SegmentHistory
     /\ StampHistory

NextEarly ==
  /\ cycles < MaxEarlyCycles
  /\ \E d \in EarlyTicks, dur \in Durations, rm \in Rooms :
       EarlyCycle(d, dur, rm[2], rm[1])

SpecEarly == InitEarly /\ [][NextEarly]_vars

\* ----------------------------------------------------- the demo sketch
\* part_003, lines 452-453
FIXED_FOCUS_TIME == U32(1 * 60 * 1000)
FIXED_REST_TIME == U32(1 * 60 * 1000)
\* pause between two cycles of the demo sketch: delay(300), two seconds, and
\* one minute
DemoTicks == {300, 2000, 60000}
\* echo pulse widths of SpecDemo: the timeout and a user close to the sensor
DemoDurations == {0, 900}

\* variant of line 601 that takes the threshold from the duration model
DemoFocusGoal_Dynamic(lx, nz) == calculateRecommendedTime(lx, nz, 999)
\* line 601: the threshold the focus time is compared with
DemoFocusGoal(lx, nz) == FIXED_FOCUS_TIME
\* line 550: the threshold the rest time is compared with
DemoRestGoal(lx, nz) == FIXED_REST_TIME

\* lines 609-624: the status colour of a focus-mode cycle
DemoFocusColor(d, nz) ==
  IF ~ValidDistance(d) THEN OFF
  ELSE IF UserTooClose(d) THEN BLUE
  ELSE IF nz > MAX_NOISE THEN NOISY ELSE GREEN

\* lines 536-606: the flags and timestamps after a cycle that reads the clock
\* as t, the distance as dist and the room as nz, lx:
\* <<isPresent, inRestMode, waitingForUserToLeave, focusStartTime,
\*   restStartTime, absenceStartTime>>
DemoTiming(t, dist, nz, lx) ==
  LET near == UserNear(dist)
      done == ~near /\ Ge32(Sub32(t, restStartTime), DemoRestGoal(lx, nz))
      abs1 == IF near THEN t ELSE absenceStartTime
      toRest == ~near /\ Ge32(Sub32(t, abs1), U32(ABSENCE_DEBOUNCE))
      starts == near /\ ~isPresent
      fStart1 == IF starts THEN t ELSE focusStartTime
      currentFocus == IF near THEN Sub32(t, fStart1) ELSE U32(0)
      warn == near /\ Ge32(currentFocus, DemoFocusGoal(lx, nz))
  IN IF inRestMode
       THEN <<isPresent, ~done, waitingForUserToLeave, focusStartTime,
              restStartTime, absenceStartTime>>
     ELSE IF waitingForUserToLeave
       THEN <<isPresent, toRest, ~toRest, focusStartTime,
              IF toRest THEN t ELSE restStartTime, abs1>>
     ELSE <<near, FALSE, warn, fStart1, restStartTime,
            IF warn THEN t ELSE absenceStartTime>>

\* lines 500-519: the state after setup(), whose delay is 1500 ms
InitDemo == InitAt(U32(SetupDelay))

\* lines 523-642: one call of loop() of the demo sketch
DemoCycle(d, dur, nz, lx) ==
  LET t == Add32(now, U32(d))
      dist == getDistanceCM(dur)
      next == DemoTiming(t, dist, nz, lx)
      focusMode == ~inRestMode /\ ~waitingForUserToLeave
  IN /\ Readings(d, dur, nz, lx)
     /\ isPresent' = next[1]
     /\ inRestMode' = next[2]
     /\ waitingForUserToLeave' = next[3]
     /\ focusStartTime' = next[4]
     /\ restStartTime' = next[5]
     /\ absenceStartTime' = next[6]
     /\ stripColor' = IF inRestMode THEN (IF next[2] THEN RED ELSE GREEN)
                       ELSE IF waitingForUserToLeave \/ next[3] THEN RED
                       ELSE DemoFocusColor(dist, nz)
     /\ envLight' = IF focusMode
                      THEN (IF next[3] THEN envLight
                                      ELSE setEnvironmentLight(lx < MIN_LUX))
                      ELSE setEnvironmentLight(FALSE)
     /\ lcdView' = IF inRestMode THEN "rest"
                    ELSE IF waitingForUserToLeave THEN "break"
                    ELSE IF next[3] THEN lcdView ELSE "focus"
     /\ nearSince' = IF UserNear(dist) /\ ~UserNear(distance) THEN t ELSE nearSince
     /\ warnNearAt' = IF next[3] /\ (focusMode \/ UserNear(dist)) THEN t
                       ELSE warnNearAt
     /\ UNCHANGED <<distanceCM, recommendedFocusTime, dynamicRestTime,
                    totalFocusTime, restFinished, lastLcdUpdate, lcdPage,
                    lastColor, lastColorChangeTime, restGoalAtStart>>
     /\ SegmentHistory
     /\ StampHistory

NextDemo ==
  /\ cycles < MaxDemoCycles
  /\ \E d \in DemoTicks, dur \in DemoDurations, rm \in Rooms :
       DemoCycle(d, dur, rm[2], rm[1])

SpecDemo == InitDemo /\ [][NextDemo]_vars

TypeOK ==
  /\ now \in (0..(W16 - 1)) \X (0..(W16 - 1))
  /\ lcdPage \in {0, 1}
  /\ isPresent \in BOOLEAN /\ inRestMode \in BOOLEAN
  /\ restFinished \in BOOLEAN /\ waitingForUserToLeave \in BOOLEAN

\* ======================================================================
\* Properties
\* ======================================================================

Edges ==
  { <<"Idle", "Focusing">>, <<"Focusing", "Idle">>,
    <<"Focusing", "WarnPendingLeave">>, <<"WarnPendingLeave", "Resting">>,
    <<"Resting", "RestFinished">>, <<"RestFinished", "Focusing">> }

\* C1: a cycle changes the phase only along Idle->Focusing, Focusing->Idle,
\* Focusing->WarnPendingLeave, WarnPendingLeave->Resting,
\* Resting->RestFinished and RestFinished->Focusing.
C1_OnlyTableEdges ==
  [][Phase' # Phase => <<Phase, Phase'>> \in Edges]_vars

\* a new segment has started after a completed warning, rest and wait
C1_Witness == prevPhase = "RestFinished" /\ Phase = "Focusing"

FlagCount ==
  Cardinality({f \in {"p", "w", "r", "f"} :
     \/ f = "p" /\ isPresent
     \/ f = "w" /\ waitingForUserToLeave
     \/ f = "r" /\ inRestMode
     \/ f = "f" /\ restFinished})

\* C2: at the end of every cycle, and initially, at most one of isPresent,
\* waitingForUserToLeave, inRestMode and restFinished is set.
C2_AtMostOneFlag == FlagCount <= 1

\* the warning state has just been entered from a focus segment
C2_Witness ==
  /\ prevPhase = "Focusing" /\ waitingForUserToLeave
  /\ ~isPresent /\ ~inRestMode /\ ~restFinished

\* t is a millis() value read during the latest cycle
InCycle(t) == \E k \in Skews : t = Add32(now, U32(k))

\* C3: in WarnPendingLeave a cycle that observes the user near restarts the
\* absence clock at the current time, and Resting is entered only by a cycle
\* that observes the user not near at least 2000 ms after the latest cycle
\* that entered the warning or observed the user near.
C3_Debounce ==
  [][Phase = "WarnPendingLeave" =>
       /\ Phase' \in {"WarnPendingLeave", "Resting"}
       /\ UserNear(distance') =>
            Phase' = "WarnPendingLeave" /\ InCycle(absenceStartTime)'
       /\ ~UserNear(distance') => absenceStartTime' = absenceStartTime
       /\ Phase' = "Resting" =>
            /\ ~UserNear(distance')
            /\ Ge32(Sub32(restStartTime', warnNearAt'), U32(ABSENCE_DEBOUNCE))]_vars

\* Resting has just been entered although the user came back once during
\* the warning: the latest near observation is later than the warning's entry
C3_Witness ==
  /\ prevPhase = "WarnPendingLeave" /\ Phase = "Resting"
  /\ closedCount = 1
  /\ Gt32(Sub32(warnNearAt, segOpenAt), totalFocusTime)
  /\ Sub32(restStartTime, warnNearAt) = U32(ABSENCE_DEBOUNCE)

\* C4: a cycle in Resting ends the rest exactly when it observes the user
\* not near and the time since restStartTime has reached the rest
\* recommendation (>=, so the rest ends at the first cycle at or after it).
C4_RestEndsIff ==
  [][Phase = "Resting" =>
       /\ Phase' \in {"Resting", "RestFinished"}
       /\ Phase' = "RestFinished" =>
            /\ ~UserNear(distance')
            /\ \E k \in Skews :
                 Ge32(Sub32(Add32(now', U32(k)), restStartTime), dynamicRestTime')
       /\ (~UserNear(distance') /\ Ge32(Sub32(now', restStartTime), dynamicRestTime'))
            => Phase' = "RestFinished"]_vars

\* the rest has just ended in the cycle at which the elapsed rest equals the
\* recommendation
C4_Witness ==
  /\ prevPhase = "Resting" /\ Phase = "RestFinished"
  /\ ~UserNear(distance)
  /\ Sub32(now, restStartTime) = dynamicRestTime

\* C5: a cycle in Resting that observes the user near leaves the phase at
\* Resting and leaves restStartTime, totalFocusTime, focusStartTime and
\* isPresent unchanged.
C5_RestNotInterrupted ==
  [][(Phase = "Resting" /\ UserNear(distance')) =>
       /\ Phase' = "Resting"
       /\ UNCHANGED <<restStartTime, totalFocusTime, focusStartTime, isPresent>>]_vars

\* the user is seen at the desk in a resting cycle after the rest duration
\* has already elapsed, and the rest goes on
C5_Witness ==
  /\ prevPhase = "Resting" /\ Phase = "Resting"
  /\ UserNear(distance)
  /\ Ge32(Sub32(now, restStartTime), dynamicRestTime)

\* C6: a Focusing cycle that observes the user near with the segment's
\* elapsed time at or above recommendedFocusTime enters WarnPendingLeave in
\* that cycle: isPresent is cleared, the elapsed time is added to
\* totalFocusTime, absenceStartTime is set to the current time, the status
\* colour becomes (40,0,0), and Resting is not entered.
C6_WarnOnLimit ==
  [][(/\ Phase = "Focusing"
      /\ UserNear(distance')
      /\ Ge32(Sub32(now', focusStartTime), recommendedFocusTime')) =>
       /\ Phase' = "WarnPendingLeave"
       /\ ~isPresent' /\ ~inRestMode'
       /\ \E k \in Skews :
            totalFocusTime' =
              Add32(totalFocusTime, Sub32(Add32(now', U32(k)), focusStartTime))
       /\ InCycle(absenceStartTime)'
       /\ lastColor' = RED]_vars

\* the warning has just been entered by a cycle in which millis() advanced
\* between the start of the cycle and the call that sets absenceStartTime
C6_Witness ==
  /\ prevPhase = "Focusing" /\ Phase = "WarnPendingLeave"
  /\ lastColor = RED
  /\ absenceStartTime = Add32(now, U32(1))
  /\ Ge32(totalFocusTime, recommendedFocusTime)

\* C7: totalFocusTime is the sum of the durations of the closed segments,
\* each counted once (each duration taken between the cycle that opened
\* the segment and the cycle that closed it; a millis() call may be later
\* than the start of its cycle by at most the largest skew, at each end).
C7_TotalIsSumOfSegments ==
  \E lo \in 0..closedCount, hi \in 0..closedCount :
    Add32(totalFocusTime, U32(lo)) = Add32(closedSum, U32(hi))

\* two segments are closed, the second by the warning, and the user has
\* then been seen leaving during the warning
C7_Witness ==
  /\ closedCount = 2
  /\ prevPhase = "WarnPendingLeave" /\ ~UserNear(distance)
  /\ Gt32(totalFocusTime, U32(25 * MsPerMin))

\* C8: totalFocusTime never decreases, and only a cycle that closes a
\* segment (Focusing->Idle or Focusing->WarnPendingLeave) changes it.
C8_TotalMonotone ==
  [][/\ Ge32(totalFocusTime', totalFocusTime)
     /\ totalFocusTime' # totalFocusTime =>
          Phase = "Focusing" /\ Phase' \in {"Idle", "WarnPendingLeave"}]_vars

\* the user is seen near during the warning, long after a segment of 25
\* minutes or more was closed, and the total has not moved
C8_Witness ==
  /\ prevPhase = "WarnPendingLeave" /\ UserNear(distance)
  /\ totalFocusTime = prevTotal
  /\ Ge32(totalFocusTime, U32(25 * MsPerMin))
  /\ Ge32(Sub32(now, focusStartTime), Add32(totalFocusTime, U32(25 * MsPerMin)))

\* C9 as stated: the target of a running segment (rest) is the one in
\* force when it began; the warning (the end of the rest) fires exactly
\* when the elapsed time reaches that target.
C9_LatchedTarget ==
  [][/\ (Phase = "Focusing" /\ UserNear(distance')) =>
          (Phase' = "WarnPendingLeave"
             <=> Ge32(Sub32(now', focusStartTime), segGoal))
     /\ (Phase = "Resting" /\ ~UserNear(distance')) =>
          (Phase' = "RestFinished"
             <=> Ge32(Sub32(now', restStartTime), restGoalAtStart))]_vars

\* C9 amended: the target is not latched; every cycle compares the elapsed
\* time of the running segment (rest) with the recommendation computed from
\* that cycle's own lux, noise and distance.
C9_LiveTarget ==
  [][/\ (Phase = "Focusing" /\ UserNear(distance')) =>
          LET fresh == calculateRecommendedTime(lux', noiseVal', DistanceArg(distance'))
          IN /\ Phase' = "WarnPendingLeave" =>
                  \E k \in Skews :
                    Ge32(Sub32(Add32(now', U32(k)), focusStartTime), fresh)
             /\ Ge32(Sub32(now', focusStartTime), fresh) =>
                  Phase' = "WarnPendingLeave"
     /\ (Phase = "Resting" /\ ~UserNear(distance')) =>
          LET fresh == calculateRestTime(lux', noiseVal')
          IN /\ Phase' = "RestFinished" =>
                  \E k \in Skews :
                    Ge32(Sub32(Add32(now', U32(k)), restStartTime), fresh)
             /\ Ge32(Sub32(now', restStartTime), fresh) =>
                  Phase' = "RestFinished"]_vars

\* a segment goes on although its elapsed time has reached the
\* recommendation that was in force when it began
C9_Witness ==
  /\ prevPhase = "Focusing" /\ Phase = "Focusing"
  /\ Ge32(Sub32(now, focusStartTime), segGoal)
  /\ Gt32(recommendedFocusTime, segGoal)

\* C10: a cycle whose distance reading is invalid (0, or outside (5, 200))
\* classifies the user as neither near nor too close, starts no segment
\* from Idle or RestFinished, and leaves isPresent clear.
C10_InvalidIsAbsent ==
  [][~ValidDistance(distance') =>
       /\ \A cm \in 0..(MAX_VALID + 100) :
            ~ValidDistance(cm) => ~UserNear(cm) /\ ~UserTooClose(cm)
       /\ ~UserNear(distance') /\ ~UserTooClose(distance')
       /\ ~isPresent'
       /\ Phase \in {"Idle", "RestFinished"} => Phase' = Phase
       /\ Phase' \in {"Idle", "Focusing", "WarnPendingLeave", "Resting",
                      "RestFinished"}]_vars

\* an echo timeout is read while waiting for the user after a finished
\* rest, and the wait goes on
C10_Witness ==
  /\ distance = 0
  /\ prevPhase = "RestFinished" /\ Phase = "RestFinished"

\* C11: for every distance reading, userTooClose implies userNear and
\* userNear implies validDistance.
C11_ImplicationChain ==
  /\ UserTooClose(distance) => UserNear(distance)
  /\ UserNear(distance) => ValidDistance(distance)
  /\ \A cm \in 0..(MAX_VALID + 100) :
       /\ UserTooClose(cm) => UserNear(cm)
       /\ UserNear(cm) => ValidDistance(cm)

\* a reading just above the lower validity limit has been classified: it is
\* too close, hence near and valid
C11_Witness ==
  cycles = 1 /\ distance = 6 /\ UserTooClose(distance) /\ UserNear(distance)

C12_Expected(lx, nz, dc) ==
  LET L == IF lx >= 300 THEN 10
           ELSE IF 150 <= lx /\ lx < 300 THEN 5
           ELSE IF 80 <= lx /\ lx < 150 THEN 0
           ELSE -10
      N == IF nz < 200 THEN 10
           ELSE IF 200 <= nz /\ nz < 350 THEN 5
           ELSE IF 350 <= nz /\ nz <= 650 THEN 0
           ELSE -10
      D == IF dc >= 40 THEN 5 ELSE IF 0 < dc /\ dc < 20 THEN -5 ELSE 0
      m == 45 + L + N + D
  IN IF m < 25 THEN 25 ELSE IF m > 60 THEN 60 ELSE m

\* C12: after calculateRecommendedTime(lux, noise, distance),
\* recommendedFocusTime is 60000 ms times clamp(45 + L + N + D, 25, 60) with
\* the bands of the claim; it is a whole number of minutes in [25, 60];
\* (500, 100, 50) gives 60 minutes and (50, 700, 15) gives 25 minutes.
C12_RecommendedTime ==
  cycles >= 1 =>
    /\ recommendedFocusTime = U32(MsPerMin * C12_Expected(lux, noiseVal, distanceCM))
    /\ \E m \in 25..60 : recommendedFocusTime = U32(MsPerMin * m)
    /\ (lux = 500 /\ noiseVal = 100 /\ distanceCM = 50) =>
         recommendedFocusTime = U32(MsPerMin * 60)
    /\ (lux = 50 /\ noiseVal = 700 /\ distanceCM = 15) =>
         recommendedFocusTime = U32(MsPerMin * 25)

\* the bright, quiet, far scenario has been evaluated and capped at 60
C12_Witness ==
  /\ cycles = 1 /\ lux = 500 /\ noiseVal = 100 /\ distanceCM = 50
  /\ recommendedFocusTime = U32(MsPerMin * 60)

C13_Expected(lx, nz) ==
  LET m == 15 + (IF lx < 80 THEN 5 ELSE 0) + (IF nz > 650 THEN 5 ELSE 0)
              - (IF lx > 150 /\ nz < 250 THEN 5 ELSE 0)
  IN IF m < 5 THEN 5 ELSE IF m > 25 THEN 25 ELSE m

\* C13: after calculateRestTime(lux, noise), dynamicRestTime is 60000 ms
\* times clamp(15 + (5 if lux < 80) + (5 if noise > 650)
\* - (5 if lux > 150 and noise < 250), 5, 25): a whole number of minutes
\* in [5, 25].
C13_RestTime ==
  cycles >= 1 =>
    /\ dynamicRestTime = U32(MsPerMin * C13_Expected(lux, noiseVal))
    /\ \E m \in 5..25 : dynamicRestTime = U32(MsPerMin * m)

\* just above 150 lux in a quiet room the rest has been shortened to 10
C13_Witness ==
  /\ cycles = 1 /\ lux = 151 /\ noiseVal = 249
  /\ dynamicRestTime = U32(MsPerMin * 10)

\* C14: for fixed other inputs a lower lux or a higher noise never gives a
\* longer focus recommendation nor a shorter rest recommendation, and a
\* smaller positive distance never gives a longer focus recommendation.
C14_Monotone ==
  cycles >= 1 =>
    /\ recommendedFocusTime = calculateRecommendedTime(lux, noiseVal, distanceCM)
    /\ dynamicRestTime = calculateRestTime(lux, noiseVal)
    /\ \A lx \in LuxSamples : lx <= lux =>
         /\ Ge32(recommendedFocusTime,
                 calculateRecommendedTime(lx, noiseVal, distanceCM))
         /\ Ge32(calculateRestTime(lx, noiseVal), dynamicRestTime)
    /\ \A nz \in NoiseSamples : nz >= noiseVal =>
         /\ Ge32(recommendedFocusTime,
                 calculateRecommendedTime(lux, nz, distanceCM))
         /\ Ge32(calculateRestTime(lux, nz), dynamicRestTime)
    /\ \A dc \in ArgSamples : (0 < dc /\ dc <= distanceCM) =>
         Ge32(recommendedFocusTime, calculateRecommendedTime(lux, noiseVal, dc))
    \* the same for the focus recommendation of the final sketch
    /\ LET final == calculateRecommendedTimeFinal(lux, noiseVal, distanceCM)
       IN /\ \A lx \in LuxSamples : lx <= lux =>
                Ge32(final, calculateRecommendedTimeFinal(lx, noiseVal, distanceCM))
          /\ \A nz \in NoiseSamples : nz >= noiseVal =>
                Ge32(final, calculateRecommendedTimeFinal(lux, nz, distanceCM))
          /\ \A dc \in ArgSamples : (0 < dc /\ dc <= distanceCM) =>
                Ge32(final, calculateRecommendedTimeFinal(lux, noiseVal, dc))

\* a middling room has been evaluated; a darker room, a louder one and a
\* closer user each give a strictly shorter focus recommendation, and the
\* darker and the louder room a strictly longer rest
C14_Witness ==
  /\ cycles = 1 /\ lux = 100 /\ noiseVal = 350 /\ distanceCM = 20
  /\ Gt32(recommendedFocusTime, calculateRecommendedTime(50, 350, 20))
  /\ Gt32(recommendedFocusTime, calculateRecommendedTime(100, 700, 20))
  /\ Gt32(recommendedFocusTime, calculateRecommendedTime(100, 350, 15))
  /\ Gt32(calculateRestTime(50, 350), dynamicRestTime)
  /\ Gt32(calculateRestTime(100, 700), dynamicRestTime)

\* C15: at the end of every cycle whose phase is WarnPendingLeave or Resting
\* the status colour last written is (40,0,0), whatever the readings.
C15_BreakColourLocked ==
  Phase \in {"WarnPendingLeave", "Resting"} => lastColor = <<40, 0, 0>>

\* a rest cycle has read a too-close user in a loud, dark room and the
\* indicator is still red
C15_Witness ==
  /\ prevPhase = "Resting" /\ Phase = "Resting"
  /\ UserTooClose(distance) /\ noiseVal > MAX_NOISE /\ lux < MIN_LUX
  /\ lastColor = <<40, 0, 0>>

\* C16: from the cycle in which the rest finishes until the user is next
\* seen near, the phase stays RestFinished and the status colour at the end
\* of every cycle is (20,20,0).
C16_WaitingColour ==
  [][/\ Phase' = "RestFinished" => lastColor' = <<20, 20, 0>>
     /\ (Phase = "RestFinished" /\ ~UserNear(distance')) => Phase' = "RestFinished"
     /\ (Phase = "RestFinished" /\ Phase' # "RestFinished") =>
          UserNear(distance') /\ Phase' = "Focusing"]_vars

\* a normal cycle has run in RestFinished with the user still away
C16_Witness ==
  /\ prevPhase = "RestFinished" /\ Phase = "RestFinished"
  /\ ~UserNear(distance) /\ lastColor = <<20, 20, 0>>
  /\ noiseVal > MAX_NOISE

C18_FocusColourPriority ==
  Phase = "Focusing" =>
    lastColor = IF UserTooClose(distance) THEN <<0, 0, 40>>
                ELSE IF noiseVal > MAX_NOISE THEN <<40, 40, 0>>
                ELSE <<0, 40, 0>>

\* too close in a loud, dark room: blue
C18_Witness ==
  /\ Phase = "Focusing" /\ UserTooClose(distance)
  /\ noiseVal > MAX_NOISE /\ lux < MIN_LUX /\ lastColor = <<0, 0, 40>>

\* C19 as stated: a cycle of a focus session that reads an invalid distance
\* turns the status LED off, or to (40,40,0) when noise > MAX_NOISE.
C19_InvalidTurnsOff ==
  [][(Phase = "Focusing" /\ ~ValidDistance(distance')) =>
       lastColor' = IF noiseVal' > MAX_NOISE THEN <<40, 40, 0>> ELSE <<0, 0, 0>>]_vars

\* C20: every cycle spent in Resting switches the environment light off,
\* whatever the lux reading.
C20_RestLightOff ==
  [][Phase = "Resting" => ~envLight']_vars

\* a rest cycle has read a dark room and the environment light is off
C20_Witness ==
  /\ prevPhase = "Resting" /\ Phase = "Resting"
  /\ lux < MIN_LUX /\ ~envLight

\* C21 as stated: at the end of every cycle whose phase is not Resting the
\* environment light is on exactly if that cycle's lux is below MIN_LUX, in
\* WarnPendingLeave too.
C21_LightFollowsLux ==
  (cycles >= 1 /\ Phase # "Resting") => (envLight <=> lux < MIN_LUX)

\* C22 as stated: at the end of every cycle in RestFinished the environment
\* light is off, even if the room is too dark.
C22_LightOffAfterRest ==
  Phase = "RestFinished" => ~envLight

RestRelated == {"WarnPendingLeave", "Resting", "RestFinished"}

\* C23 as stated: every cycle run in WarnPendingLeave, Resting or
\* RestFinished leaves fixed status text on the display, never a rotating
\* page.
C23_FixedTextInRestPhases ==
  [][(Phase \in RestRelated) => lcdView' \in {"break", "rest"}]_vars

\* C23 amended: a cycle run in WarnPendingLeave shows the break prompt and a
\* cycle run in Resting shows the rest progress; a cycle run in RestFinished
\* shows one of the two rotating pages.
C23_FixedTextInWarnAndRest ==
  [][/\ Phase = "WarnPendingLeave" => lcdView' = "break"
     /\ Phase = "Resting" => lcdView' = "rest"
     /\ Phase = "RestFinished" => lcdView' \in {"page0", "page1"}]_vars

\* a cycle has run in RestFinished with the user away and the display shows
\* a rotating page
C23_Witness ==
  /\ prevPhase = "RestFinished" /\ Phase = "RestFinished"
  /\ lcdView \in {"page0", "page1"}

\* C24 as stated: lcdPage is 0 or 1; it advances exactly in a cycle outside
\* the rest-related phases in which at least 2000 ms have passed since
\* lastLcdUpdate; a cycle in a rest-related phase leaves lcdPage and
\* lastLcdUpdate alone.
C24_PageRotation ==
  [][/\ lcdPage' \in {0, 1}
     /\ (lcdPage' # lcdPage) <=>
          (/\ Phase \notin RestRelated
           /\ Ge32(Sub32(now', lastLcdUpdate), U32(2000)))
     /\ lcdPage' # lcdPage => lcdPage' = (lcdPage + 1) % 2
     /\ Phase \in RestRelated => UNCHANGED <<lcdPage, lastLcdUpdate>>]_vars

\* C24 amended: lcdPage is 0 or 1; it advances to (lcdPage + 1) mod 2, and
\* lastLcdUpdate is set to the current time, exactly in a cycle that is run
\* in Idle, Focusing or RestFinished, does not enter WarnPendingLeave, and
\* in which more than 2000 ms have passed since lastLcdUpdate; every other
\* cycle leaves both alone.  (The current time is the value millis()
\* returns at line 314, which in Spec is the time of the cycle.)
C24_PageRotationStrict ==
  [][/\ lcdPage' \in {0, 1}
     /\ (lcdPage' # lcdPage) <=>
          (/\ Phase \in {"Idle", "Focusing", "RestFinished"}
           /\ Phase' # "WarnPendingLeave"
           /\ Gt32(Sub32(now', lastLcdUpdate), U32(2000)))
     /\ lcdPage' # lcdPage =>
          lcdPage' = (lcdPage + 1) % 2 /\ lastLcdUpdate' = now'
     /\ lcdPage' = lcdPage => lastLcdUpdate' = lastLcdUpdate]_vars

\* a focusing cycle has run exactly 2000 ms after the latest flip and the
\* page has not advanced
C24_Witness ==
  /\ prevPhase = "Focusing" /\ Phase = "Focusing"
  /\ Sub32(now, lastLcdUpdate) = U32(2000)

\* C25: a Focusing cycle that reads the same snapshot as the cycle before
\* (user near, same lux, noise and distance) with the segment's elapsed time
\* below the recommendation stays in Focusing and leaves totalFocusTime and
\* focusStartTime unchanged.
C25_FocusingIdempotent ==
  [][(/\ Phase = "Focusing"
      /\ UserNear(distance')
      /\ distance' = distance /\ lux' = lux /\ noiseVal' = noiseVal
      /\ \A k \in Skews :
           ~Ge32(Sub32(Add32(now', U32(k)), focusStartTime), recommendedFocusTime')) =>
       /\ Phase' = "Focusing"
       /\ UNCHANGED <<totalFocusTime, focusStartTime, recommendedFocusTime>>]_vars

\* the same snapshot has been fed for the fourth cycle in a row: the
\* segment began 3000 ms ago and nothing but the elapsed time has moved
C25_Witness ==
  /\ prevPhase = "Focusing" /\ Phase = "Focusing"
  /\ cycles = 4 /\ Sub32(now, focusStartTime) = U32(3000)
  /\ totalFocusTime = U32(0)

Palette == {<<r, g, b>> : r \in {0, 20, 40}, g \in {0, 20, 40}, b \in {0, 20, 40}}

\* C26: a call of safeSetStatusColor writes the strip exactly when the
\* requested colour differs from (lastR, lastG, lastB); after the call
\* (lastR, lastG, lastB) is the requested colour; once a call has been made
\* the recorded colour is the colour shown; the first call after boot writes.
C26_StatusColourCache ==
  /\ lastColor # NOCOLOR => lastColor = stripColor
  /\ \A c \in Palette :
       LET after == StatusCall(c, <<lastColor, stripColor>>)
       IN /\ after[1] = c
          /\ after[2] = c
          /\ after[3] <=> (c # lastColor)
          /\ ~after[3] => after[2] = stripColor
          /\ lastColor = NOCOLOR => after[3]

\* a rest cycle has asked for red again while red was already shown
C26_Witness ==
  /\ prevPhase = "Resting" /\ Phase = "Resting"
  /\ lastColor = RED /\ stripColor = RED

\* C27 as stated: all timestamps recorded in a cycle and the amount added to
\* totalFocusTime derive from one clock reading t of that cycle.
C27_SingleNow ==
  [][\E k \in Skews :
       LET t == Add32(now', U32(k))
       IN /\ focusStartTime' # focusStartTime => focusStartTime' = t
          /\ absenceStartTime' # absenceStartTime => absenceStartTime' = t
          /\ restStartTime' # restStartTime => restStartTime' = t
          /\ totalFocusTime' # totalFocusTime =>
               totalFocusTime' = Add32(totalFocusTime, Sub32(t, focusStartTime))]_vars

\* C27 amended: every timestamp recorded in a cycle and the amount added to
\* totalFocusTime come from a millis() call of that cycle, each from its own
\* call; the calls return non-decreasing values, so absenceStartTime set by
\* the warning entry is not before the reading used to close the segment.
C27_OwnReadings ==
  [][/\ focusStartTime' # focusStartTime => InCycle(focusStartTime)'
     /\ absenceStartTime' # absenceStartTime => InCycle(absenceStartTime)'
     /\ restStartTime' # restStartTime => InCycle(restStartTime)'
     /\ totalFocusTime' # totalFocusTime =>
          \E k \in Skews :
            /\ totalFocusTime' =
                 Add32(totalFocusTime, Sub32(Add32(now', U32(k)), focusStartTime))
            /\ Phase' = "WarnPendingLeave" =>
                 Ge32(absenceStartTime', Add32(now', U32(k)))]_vars

\* the warning has been entered by a cycle that closed the segment with one
\* reading and stamped absenceStartTime with a later one
C27_Witness ==
  /\ prevPhase = "Focusing" /\ Phase = "WarnPendingLeave"
  /\ totalFocusTime = Add32(prevTotal, Sub32(now, focusStartTime))
  /\ absenceStartTime = Add32(now, U32(1))

\* C28: at the end of every cycle, in every phase, recommendedFocusTime and
\* dynamicRestTime are the duration model applied to that cycle's lux, noise
\* and distance (999 for an invalid distance).
C28_RecomputedEveryCycle ==
  cycles >= 1 =>
    /\ recommendedFocusTime =
         calculateRecommendedTime(lux, noiseVal,
                                  IF ValidDistance(distance) THEN distance ELSE 999)
    /\ dynamicRestTime = calculateRestTime(lux, noiseVal)

\* a rest cycle has read a room other than the one read when the rest
\* began, and the rest recommendation has followed it
C28_Witness ==
  /\ prevPhase = "Resting" /\ Phase = "Resting"
  /\ dynamicRestTime # restGoalAtStart
  /\ dynamicRestTime = calculateRestTime(lux, noiseVal)

\* C29 as stated: the final sketch's focus recommendation equals the earlier
\* sketch's, except where the earlier one is at its 25-minute floor, where the
\* final one lies in [20, 25] minutes.
C29_DifferOnlyInFloor ==
  cycles >= 1 =>
    LET final == calculateRecommendedTimeFinal(lux, noiseVal, distanceCM)
    IN IF recommendedFocusTime = U32(25 * MsPerMin)
         THEN \E m \in 20..25 : final = U32(m * MsPerMin)
         ELSE final = recommendedFocusTime

\* C29 amended: the final sketch never recommends more than the earlier one;
\* the two agree when lux < 150, noise >= 350 and the earlier one is above
\* its 25-minute floor; at that floor the final one lies in [20, 25]; they
\* differ where the light is 150 lux or more or the noise below 350 (bonus
\* of 5/0 instead of 10/5 minutes), unless the 60-minute cap hides it.
C29_FinalNeverLonger ==
  cycles >= 1 =>
    LET final == calculateRecommendedTimeFinal(lux, noiseVal, distanceCM)
        early == calculateRecommendedTime(lux, noiseVal, distanceCM)
    IN /\ recommendedFocusTime = early
       /\ Ge32(early, final)
       /\ Ge32(Add32(final, U32(10 * MsPerMin)), early)
       /\ (lux < 150 /\ noiseVal >= 350 /\ early # U32(25 * MsPerMin)) => final = early
       /\ early = U32(25 * MsPerMin) => \E m \in 20..25 : final = U32(m * MsPerMin)
       /\ (lux >= 150 /\ noiseVal >= 350 /\ early # U32(60 * MsPerMin)) =>
            final = Sub32(early, U32(5 * MsPerMin))

\* a bright, quiet room at 20 cm: 60 minutes in the earlier sketch, 55 in
\* the final one
C29_Witness ==
  /\ cycles = 1 /\ lux = 500 /\ noiseVal = 100 /\ distanceCM = 20
  /\ recommendedFocusTime = U32(60 * MsPerMin)
  /\ calculateRecommendedTimeFinal(lux, noiseVal, distanceCM) = U32(55 * MsPerMin)

\* C30 as stated: in the rate-limited sketch the status LED colour is
\* (40,0,0) at the end of the cycle that enters rest mode and of every later
\* cycle in rest mode.
C30_RedOnRestEntry ==
  inRestMode => (lastColor = <<40, 0, 0>> /\ stripColor = <<40, 0, 0>>)

\* C31 as stated: in the early rgb_lcd sketch a cycle whose echo timed out
\* (getDistanceCM returned 0) ends with isPresent clear, so it neither starts
\* nor extends a focus segment, and the reading is not classified as too close.
C31_TimeoutIsNotPresence ==
  (cycles > 0 /\ distance = 0) => (~isPresent /\ ~EarlyTooClose(distance))

\* C32 as stated: in the demo sketch, once a rest has ended the red warning
\* state is entered only in a cycle that closes an unbroken run of near
\* observations lasting at least FIXED_FOCUS_TIME (a run that began after the
\* rest ended, since a rest can only end in a cycle that observes absence).
C32_FreshSegmentAfterRest ==
  [][(~waitingForUserToLeave /\ waitingForUserToLeave'
        /\ restStartTime # U32(0))
       => Ge32(Sub32(now', nearSince'), FIXED_FOCUS_TIME)]_vars

\* C33: in the demo sketch both thresholds are the constant 60000 ms, and at
\* every reachable state, for every clock value and distance reading of the
\* next cycle, the flags and timestamps after the cycle are the same for
\* every lux and noise reading; so two runs with the same clock values and
\* distance readings pass through the same phases at the same cycles.
C33_TimingIgnoresRoom ==
  \A lx \in LuxSamples, nz \in NoiseSamples :
    /\ DemoFocusGoal(lx, nz) = U32(60000)
    /\ DemoRestGoal(lx, nz) = U32(60000)
    /\ \A d \in DemoTicks, dur \in DemoDurations :
         DemoTiming(Add32(now, U32(d)), getDistanceCM(dur), nz, lx)
           = DemoTiming(Add32(now, U32(d)), getDistanceCM(dur), 0, 0)

C33_Witness ==
  /\ inRestMode /\ prevPhase = "WarnPendingLeave"
  /\ lux = 50 /\ noiseVal = 700
  /\ stampUptime = uptime
  /\ restStartTime # U32(0)
  /\ lcdView = "break"

\* C34: a failed initialisation of the light sensor ends in the halted state
\* of setup, from which no step is taken: no cycle has run or ever runs and
\* the session state keeps its initial values; there are no other states than
\* setup, loop and halted; and after a successful initialisation the first
\* cycle starts from Idle with zeroed accumulators and timestamps.
C34_SensorFailureHalts ==
  /\ [](pc \in {"setup", "loop", "halted"})
  /\ []((pc = "halted" \/ lcdView = "VEML ERROR") =>
          /\ pc = "halted" /\ lcdView = "VEML ERROR"
          /\ cycles = 0 /\ Phase = "Idle"
          /\ totalFocusTime = U32(0) /\ focusStartTime = U32(0)
          /\ stripColor = OFF /\ ~envLight)
  /\ [][(pc = "halted" \/ lcdView = "VEML ERROR") => UNCHANGED vars]_vars
  /\ [](cycles > 0 => pc = "loop")
  /\ []((pc = "loop" /\ cycles = 0) =>
          /\ Phase = "Idle"
          /\ totalFocusTime = U32(0) /\ focusStartTime = U32(0)
          /\ restStartTime = U32(0) /\ absenceStartTime = U32(0)
          /\ now = U32(SetupDelay))

C34_Witness ==
  /\ pc = "halted" /\ lcdView = "VEML ERROR"
  /\ cycles = 0 /\ now = U32(SetupDelay)

\* C35: a Focusing cycle that observes the user not near while the segment's
\* elapsed time has reached the recommendation closes the segment and goes
\* to Idle without entering the warning; the warning is only ever entered by
\* a cycle that observes the user near.
C35_AbsenceBeforeLimit ==
  [][/\ (/\ Phase = "Focusing"
         /\ ~UserNear(distance')
         /\ Ge32(Sub32(now', focusStartTime), recommendedFocusTime')) =>
          /\ Phase' = "Idle"
          /\ ~waitingForUserToLeave' /\ ~isPresent'
          /\ closedCount' = closedCount + 1
          /\ totalFocusTime' = Add32(totalFocusTime, Sub32(now', focusStartTime))
     /\ (~waitingForUserToLeave /\ waitingForUserToLeave') =>
          UserNear(distance')]_vars

\* a segment longer than the recommendation has just been closed by absence
C35_Witness ==
  /\ prevPhase = "Focusing" /\ Phase = "Idle"
  /\ ~UserNear(distance)
  /\ Ge32(Sub32(totalFocusTime, prevTotal), recommendedFocusTime)

\* C36: a single Focusing cycle that does not observe the user near closes
\* the segment; a segment opens with its clock at zero, in a cycle that
\* observes the user near; and the warning is entered only at the end of an
\* unbroken run of near observations that spans at least the recommendation
\* of the entering cycle, the segment being exactly that run.
C36_NoFocusDebounce ==
  [][/\ (Phase = "Focusing" /\ ~UserNear(distance')) =>
          /\ ~isPresent' /\ Phase' = "Idle"
          /\ closedCount' = closedCount + 1
     /\ (~isPresent /\ isPresent') =>
          /\ UserNear(distance')
          /\ focusStartTime' = now' /\ nearSince' = now'
     /\ (~waitingForUserToLeave /\ waitingForUserToLeave') =>
          /\ isPresent /\ UserNear(distance) /\ UserNear(distance')
          /\ nearSince' = nearSince /\ focusStartTime = nearSince
          /\ Ge32(Sub32(now', nearSince), recommendedFocusTime')]_vars

\* no warning or rest has happened although the near observations add up to
\* more than the recommendation: an absence split them into two segments
C36_Witness ==
  /\ Phase = "Focusing" /\ closedCount >= 1
  /\ restStartTime = U32(0)
  /\ Ge32(Add32(totalFocusTime, Sub32(now, focusStartTime)), recommendedFocusTime)
  /\ ~Ge32(Sub32(now, focusStartTime), recommendedFocusTime)

\* C37: in the warning state a cycle with an invalid distance reading taken
\* 2000 ms or more after the latest near observation (or the entry) moves to
\* Resting, and a shorter absence does not; in Resting a single cycle with a
\* not-near or invalid reading taken once the rest duration has elapsed moves
\* to RestFinished.
C37_InvalidIsAbsenceInRest ==
  [][/\ (/\ Phase = "WarnPendingLeave"
         /\ distance' <= MIN_VALID \/ distance' >= MAX_VALID) =>
          /\ ~UserNear(distance')
          /\ absenceStartTime' = absenceStartTime
          /\ (Phase' = "Resting") <=>
               Ge32(Sub32(now', warnNearAt), U32(ABSENCE_DEBOUNCE))
     /\ (/\ Phase = "Resting"
         /\ \/ distance' <= MIN_VALID \/ distance' >= MAX_VALID
            \/ distance' >= PRESENT_DISTANCE
         /\ Ge32(Sub32(now', restStartTime), dynamicRestTime')) =>
          Phase' = "RestFinished"]_vars

\* a rest that was entered on echo timeouts has just been ended by the first
\* cycle of the rest, which read a distance beyond the valid range
C37_Witness ==
  /\ prevPhase = "Resting" /\ Phase = "RestFinished"
  /\ distance >= MAX_VALID
  /\ Sub32(restStartTime, warnNearAt) = U32(ABSENCE_DEBOUNCE)
  /\ Sub32(now, restStartTime) = U32(1500000)

\* C38: once the user has left for good and the clock keeps advancing, the
\* warning state leads to Resting and Resting leads to RestFinished; a cycle
\* in RestFinished that does not observe the user near stays in RestFinished;
\* and a warning cycle run less than 2000 ms after the latest near
\* observation stays in the warning state, however long the warning has lasted.
C38_ProgressUnderAbsence ==
  /\ (cycles >= MaxProgressCycles /\ Phase = "WarnPendingLeave")
       ~> (Phase = "Resting")
  /\ (cycles >= MaxProgressCycles /\ Phase = "Resting")
       ~> (Phase = "RestFinished")
  /\ [][(Phase = "RestFinished" /\ ~UserNear(distance')) =>
          Phase' = "RestFinished"]_vars
  /\ [][(/\ Phase = "WarnPendingLeave"
         /\ ~Ge32(Sub32(now', warnNearAt'), U32(ABSENCE_DEBOUNCE))) =>
          Phase' = "WarnPendingLeave"]_vars

\* after the user left, the warning became a rest, the rest ended and the
\* machine has since stayed in RestFinished for a further cycle
C38_Witness ==
  /\ cycles > MaxProgressCycles + 3
  /\ prevPhase = "RestFinished" /\ Phase = "RestFinished"
  /\ ~UserNear(distance)
  /\ restStartTime # U32(0)

\* C39: for every raw reading outside 6..199 cm (the timeout 0, 1 to 5 cm,
\* 200 cm and more) the loop passes 999 to the focus model, whose distance
\* term is then +5 and whose result equals that for a user at 40 cm; the
\* distance term is -5 exactly for raw readings of 6 to 19 cm; and the
\* recommendation the loop stores is the model's value for that argument.
C39_SentinelDistance ==
  /\ \A d \in 0..(MAX_VALID + 100) :
       /\ (d <= MIN_VALID \/ d >= MAX_VALID) =>
            /\ DistanceArg(d) = 999
            /\ DistDelta(DistanceArg(d)) = 5
            /\ calculateRecommendedTime(lux, noiseVal, DistanceArg(d))
                 = calculateRecommendedTime(lux, noiseVal, 40)
       /\ (DistDelta(DistanceArg(d)) = -5) <=> (d >= 6 /\ d <= 19)
  /\ (cycles = 1 /\ distanceCM = DistanceArg(distance)) =>
       recommendedFocusTime =
         calculateRecommendedTime(lux, noiseVal,
           IF distance >= 6 /\ distance <= 199 THEN distance ELSE 999)

\* a reading of 3 cm in a room where no clamp applies: 45 + 0 + 5 + 5 minutes
C39_Witness ==
  /\ cycles = 1 /\ distance = 3 /\ distanceCM = 999
  /\ lux = 100 /\ noiseVal = 249
  /\ recommendedFocusTime = U32(55 * MsPerMin)

\* the number of milliseconds an unsigned long below 2^31 holds
C40_Ms(a) == a[1] * W16 + a[2]

\* C40: with the clock wrapping at 2^32, the elapsed time the code computes
\* from focusStartTime, absenceStartTime and restStartTime equals the time
\* that has really passed since the timestamp was written, and the
\* transitions out of Focusing, WarnPendingLeave and Resting are taken
\* exactly when that real elapsed time has reached the threshold.
C40_WrapSafe ==
  /\ [](Phase = "Focusing" =>
          Sub32(now, focusStartTime) = U32(uptime - stampUptime))
  /\ [](Phase = "WarnPendingLeave" =>
          Sub32(now, absenceStartTime) = U32(uptime - stampUptime))
  /\ [](Phase = "Resting" =>
          Sub32(now, restStartTime) = U32(uptime - stampUptime))
  /\ [][/\ (Phase = "Focusing" /\ UserNear(distance')) =>
             ((Phase' = "WarnPendingLeave") <=>
                (uptime' - stampUptime >= C40_Ms(recommendedFocusTime')))
        /\ (Phase = "WarnPendingLeave" /\ ~UserNear(distance')) =>
             ((Phase' = "Resting") <=>
                (uptime' - stampUptime >= ABSENCE_DEBOUNCE))
        /\ (Phase = "Resting" /\ ~UserNear(distance')) =>
             ((Phase' = "RestFinished") <=>
                (uptime' - stampUptime >= C40_Ms(dynamicRestTime')))]_vars

\* a rest has just ended whose start was stamped before the clock wrapped
\* and whose end was found after it
C40_Witness ==
  /\ prevPhase = "Resting" /\ Phase = "RestFinished"
  /\ ~Ge32(now, restStartTime)
  /\ uptime - stampUptime >= C40_Ms(dynamicRestTime)

====
